---- MODULE Spec2Model ----
(***************************************************************************)
(* Model of service/api/main.py of fin-trends: the /trend/{ticker} chart   *)
(* pipeline (fetch, fit, compose) and the cookie-backed session state      *)
(* (homepage, /add, /remove, /set_options).                                *)
(*                                                                         *)
(* Numbers.  Prices and timestamps are integers, every derived quantity is *)
(* an exact rational [n, d] (d > 0) kept in lowest terms; the float value  *)
(* nan is [n |-> 0, d |-> 0].  Prices are powers of two, so that log(y) is *)
(* an integer in units of ln 2 and exp of a rational r is written          *)
(* [n, d] meaning 2^(n/d).                                                 *)
(*                                                                         *)
(* Scheduling.  Every handler is an `async def` without an await, so the   *)
(* event loop runs it to completion before any other request: a handler is *)
(* one action.  Requests wait in `pending` / `inflight` and are handled in *)
(* any order.                                                              *)
(***************************************************************************)
EXTENDS Integers, Sequences, FiniteSets, TLC

(* ---------------------------- bounds ----------------------------------- *)
UnitsPerDay == 2      \* timestamp ticks per day (intraday resolution)
MaxTime == 4          \* timestamps range over 0..MaxTime ticks
MaxRows == 3          \* most rows the provider returns
MaxPending == 2       \* /trend requests waiting for the event loop
MaxInFlight == 1      \* session requests sent but not yet handled

VARIABLES
    cookie,    \* the browser's stock_state cookie
    pending,   \* /trend requests not yet handled
    trend,     \* locals and response of the last get_trend run
    figs,      \* pyplot's process-wide figure registry, active figure last
    inflight,  \* session requests not yet handled, each with its cookie
    sess,      \* request, state read and response of the last session handler
    chained,   \* history: every mutation so far carried the latest cookie
    addRank    \* history: rank of each ticker's latest effective add

vars == <<cookie, pending, trend, figs, inflight, sess, chained, addRank>>

(* ---------------------------- tickers ---------------------------------- *)
\* A ticker is a sequence of characters.
MSFT == <<"M", "S", "F", "T">>
AAPL == <<"A", "A", "P", "L">>
ZZZZ == <<"Z", "Z", "Z", "Z">>

LowerCase == <<"a", "f", "l", "m", "p", "s", "t", "z">>
UpperCase == <<"A", "F", "L", "M", "P", "S", "T", "Z">>

\* str.upper on one character
UpperChar(c) ==
    IF \E i \in 1..Len(LowerCase) : LowerCase[i] = c
    THEN UpperCase[CHOOSE i \in 1..Len(LowerCase) : LowerCase[i] = c]
    ELSE c

\* str.upper
Upper(t) == [i \in 1..Len(t) |-> UpperChar(t[i])]

(* ---------------------------- rationals -------------------------------- *)
Abs(a) == IF a < 0 THEN -a ELSE a

RECURSIVE GCD(_, _)
GCD(a, b) == IF b = 0 THEN a ELSE GCD(b, a % b)

NaN == [n |-> 0, d |-> 0]
IsNaN(r) == r.d = 0

\* n/d in lowest terms; a zero divisor gives nan (0.0/0.0 in float64)
Rat(n, d) ==
    IF d = 0 THEN NaN
    ELSE LET g == GCD(Abs(n), Abs(d))
             s == IF d < 0 THEN -1 ELSE 1
         IN  [n |-> (s * n) \div g, d |-> (s * d) \div g]

Int2Rat(a) == [n |-> a, d |-> 1]

RAdd(a, b) == IF IsNaN(a) \/ IsNaN(b) THEN NaN
              ELSE Rat(a.n * b.d + b.n * a.d, a.d * b.d)
RSub(a, b) == IF IsNaN(a) \/ IsNaN(b) THEN NaN
              ELSE Rat(a.n * b.d - b.n * a.d, a.d * b.d)
RMul(a, b) == IF IsNaN(a) \/ IsNaN(b) THEN NaN
              ELSE Rat(a.n * b.n, a.d * b.d)
RDiv(a, b) == IF IsNaN(a) \/ IsNaN(b) THEN NaN
              ELSE Rat(a.n * b.d, a.d * b.n)

RECURSIVE SumTo(_, _)
\* sum of f[1..k]
SumTo(f, k) == IF k = 0 THEN 0 ELSE f[k] + SumTo(f, k - 1)

RECURSIVE RSumTo(_, _)
\* sum of the rationals f[1..k]
RSumTo(f, k) == IF k = 0 THEN Int2Rat(0) ELSE RAdd(f[k], RSumTo(f, k - 1))

(* ---------------------------- provider --------------------------------- *)
RECURSIVE Log2(_)
\* log of a power of two, in units of ln 2
Log2(v) == IF v <= 1 THEN 0 ELSE 1 + Log2(v \div 2)

Times == 0..MaxTime
\* closes the provider quotes: positive, powers of two
Closes == {1, 2}

\* Frames yf.download can return: rows (t, Close), index strictly ascending.
Frames ==
    UNION {
        {f \in [1..k -> [t : Times, Close : Closes]] :
            \A i \in 1..(k - 1) : f[i].t < f[i + 1].t}
        : k \in 0..MaxRows}

NoFrame == <<>>

\* what yf.download does: raise (transport failure) or return a frame
Downloads ==
    {[raised |-> TRUE, data |-> NoFrame]}
        \cup {[raised |-> FALSE, data |-> f] : f \in Frames}

(* ---------------------------- responses -------------------------------- *)
NoSetCookie == [kind |-> "unset", state |-> <<>>]
NoPng == [lines |-> <<>>, yscale |-> "", ylabel |-> "", title |-> <<>>]

\* fastapi.Response(content, media_type) with a text body
Response(content, media_type) ==
    [status |-> 200, media_type |-> media_type, text |-> content,
     png |-> NoPng, location |-> "", set_cookie |-> NoSetCookie]

\* an image response that also writes the module default as the cookie
PngResponseWithCookie(png) ==
    [status |-> 200, media_type |-> "image/png", text |-> "",
     png |-> png, location |-> "",
     set_cookie |-> [kind |-> "json",
                     state |-> [stocks |-> <<<<"M", "S", "F", "T">>>>,
                                period |-> "1y", scale |-> "log"]]]

\* fastapi.Response(content=buf.getvalue(), media_type="image/png")
PngResponse(png) ==
    [status |-> 200, media_type |-> "image/png", text |-> "",
     png |-> png, location |-> "", set_cookie |-> NoSetCookie]

\* what the framework answers when the handler raises
ServerError ==
    [status |-> 500, media_type |-> "text/plain",
     text |-> "Internal Server Error",
     png |-> NoPng, location |-> "", set_cookie |-> NoSetCookie]

NoResponse ==
    [status |-> 0, media_type |-> "", text |-> "",
     png |-> NoPng, location |-> "", set_cookie |-> NoSetCookie]

\* the browser stores a Set-Cookie header, and keeps its cookie otherwise
Receive(jar, response) ==
    IF response.set_cookie.kind = "unset" THEN jar ELSE response.set_cookie

(* ---------------------------- fetch ------------------------------------ *)
\* day offsets rounded to the nearest day instead of truncated
DaysSinceRounded(df) ==
    [i \in 1..Len(df) |->
        (2 * (df[i].t - df[1].t) + UnitsPerDay) \div (2 * UnitsPerDay)]

\* (df.index - df.index[0]).days.values.astype(float)
DaysSince(df) ==
    [i \in 1..Len(df) |-> (df[i].t - df[1].t) \div UnitsPerDay]

\* df["Close"].values
CloseValues(df) == [i \in 1..Len(df) |-> df[i].Close]

\* _get_stock_data without the data.empty test
GetStockDataNoEmptyCheck(data) ==
    [none |-> FALSE, df |-> data,
     x |-> DaysSince(data), y |-> CloseValues(data)]

\* _get_stock_data after the download: (None, None, None) or (df, x, y)
GetStockData(data) ==
    IF Len(data) = 0
    THEN [none |-> TRUE, df |-> NoFrame, x |-> <<>>, y |-> <<>>]
    ELSE [none |-> FALSE, df |-> data,
          x |-> DaysSince(data), y |-> CloseValues(data)]

(* ---------------------------- fit -------------------------------------- *)
\* np.log(y), in units of ln 2
LogValues(y) == [i \in 1..Len(y) |-> Log2(y[i])]

\* determinant of the normal equations of a degree-1 fit
FitDet(x) ==
    LET n == Len(x)
        sx == SumTo(x, n)
        sxx == SumTo([i \in 1..n |-> x[i] * x[i]], n)
    IN  n * sxx - sx * sx

\* np.polyfit(x, y_log, 1).  With fewer than two distinct x the scaled
\* Vandermonde matrix holds nan (0/0): LAPACK then either fails to converge
\* (LinAlgError) or returns nan coefficients, depending on the build.
Polyfit(x, y_log) ==
    LET n == Len(x)
        sx == SumTo(x, n)
        sy == SumTo(y_log, n)
        sxy == SumTo([i \in 1..n |-> x[i] * y_log[i]], n)
        det == FitDet(x)
        slope == Rat(n * sxy - sx * sy, det)
        intercept == RDiv(RSub(Int2Rat(sy), RMul(slope, Int2Rat(sx))),
                          Int2Rat(n))
    IN  IF det # 0
        THEN {[raised |-> FALSE, slope |-> slope, intercept |-> intercept]}
        ELSE {[raised |-> TRUE, slope |-> NaN, intercept |-> NaN],
              [raised |-> FALSE, slope |-> NaN, intercept |-> NaN]}

\* np.exp(intercept_ls + slope_ls * x): each value is 2^(n/d)
TrendLs(fit, x) ==
    [i \in 1..Len(x) |->
        RAdd(fit.intercept, RMul(fit.slope, Int2Rat(x[i])))]

\* np.trapezoid(y, x) for rational y over integer x
Trapezoid(y, x) ==
    RDiv(RSumTo([i \in 1..(Len(x) - 1) |->
                    RMul(Int2Rat(x[i + 1] - x[i]), RAdd(y[i + 1], y[i]))],
                Len(x) - 1),
         Int2Rat(2))

\* df["Close"].to_numpy(dtype=float).reshape(-1)
CloseFloats(df) == [i \in 1..Len(df) |-> Int2Rat(df[i].Close)]

\* the slope without the factor 2 of the triangle area
GrowthSlopeNoDouble(y, x) ==
    LET x0 == x[1]
        x1 == x[Len(x)]
        y0 == y[1]
        area_actual == Trapezoid(y, x)
    IN  RDiv(RSub(area_actual, RMul(y0, Int2Rat(x1 - x0))),
             Int2Rat((x1 - x0) * (x1 - x0)))

\* m = (2 * (area_actual - y0 * (x1 - x0))) / ((x1 - x0) ** 2)
GrowthSlope(y, x) ==
    LET x0 == x[1]
        x1 == x[Len(x)]
        y0 == y[1]
        area_actual == Trapezoid(y, x)
    IN  RDiv(RMul(Int2Rat(2),
                  RSub(area_actual, RMul(y0, Int2Rat(x1 - x0)))),
             Int2Rat((x1 - x0) * (x1 - x0)))

\* the line evaluated on the interval widths np.diff(x), one element short
AvgGrowthDiff(y, x) ==
    LET m == GrowthSlope(y, x)
    IN  [i \in 1..(Len(x) - 1) |->
            RAdd(y[1], RMul(m, Int2Rat(x[i + 1] - x[i])))]

\* avg_growth = y0 + m * (x - x0)
AvgGrowth(y, x) ==
    LET m == GrowthSlope(y, x)
    IN  [i \in 1..Len(x) |-> RAdd(y[1], RMul(m, Int2Rat(x[i] - x[1])))]

(* ---------------------------- compose ---------------------------------- *)
RECURSIVE MaxNum(_)
MaxNum(fs) ==
    IF fs = <<>> THEN 0
    ELSE LET rest == MaxNum(Tail(fs))
         IN  IF Head(fs).num > rest THEN Head(fs).num ELSE rest

\* plt.subplots: a new figure, numbered past the open ones, becomes active
Subplots(fs) ==
    Append(fs, [num |-> MaxNum(fs) + 1, lines |-> <<>>,
                yscale |-> "linear", ylabel |-> "", title |-> <<>>])

\* plt.gcf(): the active figure is the last one registered
Gcf(fs) == fs[Len(fs)]

\* ax.plot raises ValueError unless both arguments have the same length
PlotRaises(xdata, ydata) == Len(xdata) # Len(ydata)

\* ax.plot(...) on the axes of figure num
AxPlot(fs, num, xdata, ydata, label, color, linestyle) ==
    [i \in 1..Len(fs) |->
        IF fs[i].num = num
        THEN [fs[i] EXCEPT !.lines =
                 Append(@, [xdata |-> xdata, ydata |-> ydata,
                            label |-> label, color |-> color,
                            linestyle |-> linestyle])]
        ELSE fs[i]]

\* ax.set_yscale / ax.set_ylabel / ax.set_title on the axes of figure num
AxSet(fs, num, yscale, ylabel, title) ==
    [i \in 1..Len(fs) |->
        IF fs[i].num = num
        THEN [fs[i] EXCEPT !.yscale = yscale, !.ylabel = ylabel,
                           !.title = title]
        ELSE fs[i]]

\* plt.savefig(buf): rasterises the active figure
Savefig(fs) ==
    LET f == Gcf(fs)
    IN  [lines |-> f.lines, yscale |-> f.yscale, ylabel |-> f.ylabel,
         title |-> f.title]

\* a close that leaves the figure registered
CloseNothing(fs, num) == fs

\* plt.close(fig)
Close(fs, num) == SelectSeq(fs, LAMBDA f : f.num # num)

\* the y-axis branch of get_trend
YScale(scale) == IF scale = "log" THEN "log2" ELSE "linear"
YLabel(scale) == IF scale = "log" THEN "Price (log scale)" ELSE "Price"

Index(df) == [i \in 1..Len(df) |-> df[i].t]

\* fig, ax = plt.subplots(...) through plt.close(fig), on registry fs.
\* A ValueError from ax.plot leaves the new figure registered.
Compose(fs, req, df, y, avg_growth, trend_ls) ==
    LET num == MaxNum(fs) + 1
        f0 == Subplots(fs)
        f1 == AxPlot(f0, num, Index(df), y, req.ticker, "red", "-")
        f2 == AxPlot(f1, num, Index(df), avg_growth,
                     <<"Average Growth">>, "green", "--")
        f3 == AxPlot(f2, num, Index(df), trend_ls, <<"Trend">>, "blue", "--")
        f4 == AxSet(f3, num, YScale(req.scale), YLabel(req.scale),
                    <<req.ticker, " Stock Price with Trend">>)
    IN  IF PlotRaises(Index(df), y) THEN
            [raised |-> TRUE, figs |-> f0, png |-> NoPng]
        ELSE IF PlotRaises(Index(df), avg_growth) THEN
            [raised |-> TRUE, figs |-> f1, png |-> NoPng]
        ELSE IF PlotRaises(Index(df), trend_ls) THEN
            [raised |-> TRUE, figs |-> f2, png |-> NoPng]
        ELSE
            [raised |-> FALSE, figs |-> Close(f4, num), png |-> Savefig(f4)]

(* ---------------------------- /trend ----------------------------------- *)
Scales == {"linear", "log"}

\* the requests clients make: a known ticker on the log scale, and an
\* unknown one with the handler's default period, interval and scale
TrendRequests ==
    {[ticker |-> MSFT, period |-> "7d", interval |-> "1d", scale |-> "log"],
     [ticker |-> ZZZZ, period |-> "7d", interval |-> "1d",
      scale |-> "linear"]}

NoRequest ==
    [ticker |-> <<>>, period |-> "", interval |-> "", scale |-> ""]

NoTrend ==
    [outcome |-> "none", req |-> NoRequest, fetch |-> "none",
     df |-> NoFrame, x |-> <<>>, close |-> <<>>, y |-> <<>>,
     trend_ls |-> <<>>, avg_growth |-> <<>>, response |-> NoResponse]

\* get_trend from the fetch to the curves, lines 137-162: what
\* _get_stock_data returned and, unless that is None, the locals for each
\* thing np.polyfit can do
Locals(data) ==
    LET got == GetStockData(data)
        y == CloseFloats(got.df)
    IN  [got |-> got,
         y |-> y,
         avg_growth |-> IF got.none THEN <<>> ELSE AvgGrowth(y, got.x),
         fits |-> IF got.none THEN {}
                  ELSE {[raised |-> fit.raised,
                         trend_ls |-> TrendLs(fit, got.x)] :
                            fit \in Polyfit(got.x, LogValues(got.y))}]

\* every way yf.download and the lines up to the plot can go, computed once:
\* a transport failure, or a frame with the locals it leads to
Fetches ==
    {[raised |-> TRUE, data |-> NoFrame, loc |-> Locals(NoFrame)]}
        \cup {[raised |-> FALSE, data |-> dl.data, loc |-> Locals(dl.data)] :
                dl \in {d \in Downloads : ~d.raised}}

\* get_trend from plt.subplots on: locals at the plot and the response
Fitted(fs, req, loc, fit) ==
    LET out == Compose(fs, req, loc.got.df, loc.y, loc.avg_growth,
                       fit.trend_ls)
    IN  [figs |-> out.figs,
         run |-> [outcome |-> IF out.raised THEN "raised" ELSE "image",
                  req |-> req, fetch |-> "rows", df |-> loc.got.df,
                  x |-> loc.got.x, close |-> loc.got.y, y |-> loc.y,
                  trend_ls |-> fit.trend_ls, avg_growth |-> loc.avg_growth,
                  response |-> IF out.raised THEN ServerError
                               ELSE PngResponse(out.png)]]

\* a client requests GET /trend/{ticker}?period=..&interval=..&scale=..
SendTrend ==
    /\ Cardinality(pending) < MaxPending
    /\ \E r \in TrendRequests : pending' = pending \cup {r}
    /\ UNCHANGED <<cookie, trend, figs, inflight, sess, chained, addRank>>

\* GET /trend/{ticker}
get_trend ==
    \E r \in pending, dl \in Fetches :
        LET loc == dl.loc
            got == loc.got
        IN  /\ pending' = pending \ {r}
            /\ \/ /\ dl.raised
                  /\ trend' = [NoTrend EXCEPT !.outcome = "raised",
                                  !.req = r, !.fetch = "failed",
                                  !.response = ServerError]
                  /\ figs' = figs
               \/ /\ ~dl.raised
                  /\ got.none
                  /\ trend' = [NoTrend EXCEPT !.outcome = "nodata",
                                  !.req = r, !.fetch = "rows",
                                  !.df = dl.data,
                                  !.response = Response("No data available",
                                                        "text/plain")]
                  /\ figs' = figs
               \/ /\ ~dl.raised
                  /\ ~got.none
                  /\ \E fit \in loc.fits :
                        IF fit.raised
                        THEN /\ trend' = [NoTrend EXCEPT !.outcome = "raised",
                                             !.req = r, !.fetch = "rows",
                                             !.df = dl.data, !.x = got.x,
                                             !.close = got.y,
                                             !.response = ServerError]
                             /\ figs' = figs
                        ELSE LET done == Fitted(figs, r, loc, fit)
                             IN  /\ trend' = done.run
                                 /\ figs' = done.figs
            /\ cookie' = Receive(cookie, trend'.response)
            /\ UNCHANGED <<inflight, sess, chained, addRank>>

(* ---------------------------- session state ---------------------------- *)
\* DEFAULT_STATE
DEFAULT_STATE == [stocks |-> <<MSFT>>, period |-> "1y", scale |-> "log"]

\* the dict literal get_state_from_cookie falls back to
CookieDefaults ==
    [stocks |-> <<>>, period |-> "6mo", scale |-> "linear", interval |-> "1d"]

\* Cookie values: no cookie, an empty value, a value that is not JSON, or
\* the JSON text of a state.  json.loads(json.dumps(d)) = d for a dict of
\* strings and lists of strings, so the text is kept as the dict it encodes.
NoCookie == [kind |-> "absent", state |-> <<>>]
EmptyCookie == [kind |-> "empty", state |-> <<>>]
GarbageCookie == [kind |-> "garbage", state |-> <<>>]

\* json.dumps(state)
Dumps(state) == [kind |-> "json", state |-> state]

\* a fallback to the module-level DEFAULT_STATE
GetStateOrModuleDefault(c) ==
    IF c.kind = "json" THEN c.state ELSE DEFAULT_STATE

\* get_state_from_cookie
get_state_from_cookie(c) ==
    IF c.kind = "json" THEN c.state ELSE CookieDefaults

NoContext == [stocks |-> <<>>, period |-> "", scale |-> ""]

\* templates.TemplateResponse("index.html", {...})
TemplateResponse(state) ==
    [status |-> 200, media_type |-> "text/html", location |-> "",
     context |-> [stocks |-> state["stocks"], period |-> state["period"],
                  scale |-> state["scale"]],
     set_cookie |-> NoSetCookie]

\* RedirectResponse(url="/", status_code=303)
RedirectResponse ==
    [status |-> 303, media_type |-> "", location |-> "/",
     context |-> NoContext, set_cookie |-> NoSetCookie]

\* save_state_in_cookie
save_state_in_cookie(response, state) ==
    [response EXCEPT !.set_cookie = Dumps(state)]

Contains(list, e) == \E i \in 1..Len(list) : list[i] = e

\* list.remove: drops the first occurrence
RECURSIVE ListRemove(_, _)
ListRemove(list, e) ==
    IF list = <<>> THEN <<>>
    ELSE IF Head(list) = e THEN Tail(list)
    ELSE <<Head(list)>> \o ListRemove(Tail(list), e)

\* add_stock without ticker.upper()
AddStockNoUpper(state, ticker) ==
    IF ~Contains(state["stocks"], ticker)
    THEN [state EXCEPT !["stocks"] = Append(@, ticker)]
    ELSE state

\* add_stock up to the response
AddStock(state, ticker) ==
    LET t == Upper(ticker)
    IN  IF ~Contains(state["stocks"], t)
        THEN [state EXCEPT !["stocks"] = Append(@, t)]
        ELSE state

\* remove_stock up to the response
RemoveStock(state, ticker) ==
    LET t == Upper(ticker)
    IN  IF Contains(state["stocks"], t)
        THEN [state EXCEPT !["stocks"] = ListRemove(@, t)]
        ELSE state

\* set_options that rebuilds the state from the fallback dict
SetOptionsFresh(state, period, scale) ==
    [CookieDefaults EXCEPT !["period"] = period, !["scale"] = scale]

\* set_options up to the response
SetOptions(state, period, scale) ==
    [state EXCEPT !["period"] = period, !["scale"] = scale]

TickerInputs == {MSFT, <<"M", "s", "f", "t">>, AAPL, <<"a", "a", "p", "l">>}
UpperTickers == {MSFT, AAPL}
Periods == {"6mo", "1y"}

NoSess ==
    [kind |-> "none", cookie |-> NoCookie, ticker |-> <<>>, period |-> "",
     scale |-> "", state |-> CookieDefaults, response |-> RedirectResponse]

NoRank == [u \in UpperTickers |-> 0]
Present(rank) == {u \in UpperTickers : rank[u] > 0}

\* history: the ticker becomes the latest member unless it is one already
RankAdd(rank, u) ==
    IF rank[u] > 0 THEN rank
    ELSE [rank EXCEPT ![u] = Cardinality(Present(rank)) + 1]

\* history: the ticker leaves, later members move up
RankRemove(rank, u) ==
    IF rank[u] = 0 THEN rank
    ELSE [v \in UpperTickers |->
            IF v = u THEN 0
            ELSE IF rank[v] > rank[u] THEN rank[v] - 1 ELSE rank[v]]

\* the cookies a request handled now may carry: the browser's current one
\* (sent and handled at once) or one of a request sent earlier
Carried == {0} \cup (1..Len(inflight))
CookieOf(i) == IF i = 0 THEN cookie ELSE inflight[i]
Taken(i) ==
    IF i = 0 THEN inflight
    ELSE SubSeq(inflight, 1, i - 1) \o SubSeq(inflight, i + 1, Len(inflight))

\* the browser sends a request that the server handles later
SendRequest ==
    /\ Len(inflight) < MaxInFlight
    /\ inflight' = Append(inflight, cookie)
    /\ UNCHANGED <<cookie, pending, trend, figs, sess, chained, addRank>>

\* GET /
homepage ==
    \E i \in Carried :
        LET state == get_state_from_cookie(CookieOf(i))
            response == TemplateResponse(state)
        IN  /\ inflight' = Taken(i)
            /\ sess' = [NoSess EXCEPT !.kind = "home", !.cookie = CookieOf(i),
                           !.state = state, !.response = response]
            /\ cookie' = Receive(cookie, response)
            /\ UNCHANGED <<pending, trend, figs, chained, addRank>>

\* the history variables after a mutation that carried cookie c
Track(c, rank) ==
    /\ chained' = (chained /\ c = cookie)
    /\ addRank' = IF chained' THEN rank ELSE NoRank

\* POST /add
add_stock ==
    \E i \in Carried, ticker \in TickerInputs :
        LET read == get_state_from_cookie(CookieOf(i))
            state == AddStock(read, ticker)
            response == save_state_in_cookie(RedirectResponse, state)
        IN  /\ inflight' = Taken(i)
            /\ sess' = [NoSess EXCEPT !.kind = "add", !.cookie = CookieOf(i),
                           !.ticker = ticker, !.state = read,
                           !.response = response]
            /\ cookie' = Receive(cookie, response)
            /\ Track(CookieOf(i), RankAdd(addRank, Upper(ticker)))
            /\ UNCHANGED <<pending, trend, figs>>

\* POST /remove
remove_stock ==
    \E i \in Carried, ticker \in TickerInputs :
        LET read == get_state_from_cookie(CookieOf(i))
            state == RemoveStock(read, ticker)
            response == save_state_in_cookie(RedirectResponse, state)
        IN  /\ inflight' = Taken(i)
            /\ sess' = [NoSess EXCEPT !.kind = "remove",
                           !.cookie = CookieOf(i), !.ticker = ticker,
                           !.state = read, !.response = response]
            /\ cookie' = Receive(cookie, response)
            /\ Track(CookieOf(i), RankRemove(addRank, Upper(ticker)))
            /\ UNCHANGED <<pending, trend, figs>>

\* POST /set_options
set_options ==
    \E i \in Carried, period \in Periods, scale \in Scales :
        LET read == get_state_from_cookie(CookieOf(i))
            state == SetOptions(read, period, scale)
            response == save_state_in_cookie(RedirectResponse, state)
        IN  /\ inflight' = Taken(i)
            /\ sess' = [NoSess EXCEPT !.kind = "set_options",
                           !.cookie = CookieOf(i), !.period = period,
                           !.scale = scale, !.state = read,
                           !.response = response]
            /\ cookie' = Receive(cookie, response)
            /\ Track(CookieOf(i), addRank)
            /\ UNCHANGED <<pending, trend, figs>>

(* ---------------------------- specifications --------------------------- *)
\* cookies a browser may hold when it asks for a chart
SampleCookies ==
    {NoCookie,
     Dumps([CookieDefaults EXCEPT !["stocks"] = <<MSFT, AAPL>>,
                                  !["period"] = "1y", !["scale"] = "log"])}

InitCommon ==
    /\ pending = {}
    /\ trend = NoTrend
    /\ figs = <<>>
    /\ inflight = <<>>
    /\ sess = NoSess
    /\ chained = TRUE
    /\ addRank = NoRank

InitTrend == InitCommon /\ cookie \in SampleCookies

\* a session starts without a usable cookie
InitSession == InitCommon /\ cookie \in {NoCookie, EmptyCookie, GarbageCookie}

NextTrend == SendTrend \/ get_trend

NextSession ==
    SendRequest \/ homepage \/ add_stock \/ remove_stock \/ set_options

\* the chart pipeline
SpecTrend == InitTrend /\ [][NextTrend]_vars

\* the session handlers
SpecSession == InitSession /\ [][NextSession]_vars

(* ---------------------------- properties ------------------------------- *)
Last(q) == q[Len(q)]
FetchedRows == trend.fetch = "rows"
Degenerate == Len(trend.x) >= 1 /\ Last(trend.x) = trend.x[1]
ReachedPlot == trend.fetch = "rows" /\ Len(trend.y) > 0

\* C1: when the provider returns zero rows, get_trend answers 200
\* text/plain "No data available", builds no curve and no figure, and the
\* response is not an image.
C1_NoDataOnZeroRows ==
    (FetchedRows /\ Len(trend.df) = 0) =>
        /\ trend.outcome = "nodata"
        /\ trend.response.status = 200
        /\ trend.response.text = "No data available"
        /\ trend.response.media_type = "text/plain"
        /\ trend.response.png = NoPng
        /\ trend.trend_ls = <<>>
        /\ trend.avg_growth = <<>>
        /\ figs = <<>>

C1_Witness ==
    /\ FetchedRows
    /\ Len(trend.df) = 0
    /\ trend.req.ticker = ZZZZ
    /\ trend.response.media_type = "text/plain"
    /\ pending # {}

C3_AreaMatching ==
    (ReachedPlot /\ Last(trend.x) > trend.x[1]) =>
        /\ Trapezoid(trend.avg_growth, trend.x) = Trapezoid(trend.y, trend.x)
        /\ trend.avg_growth[1] = trend.y[1]

C3_Witness ==
    /\ trend.outcome = "image"
    /\ Len(trend.x) = 3
    /\ trend.x[2] > trend.x[1]
    /\ trend.x[3] > trend.x[2]
    /\ trend.y[2].n > trend.y[3].n
    /\ trend.avg_growth[3].d > 1
    /\ trend.avg_growth[3].n < trend.y[1].n * trend.avg_growth[3].d

\* C4: for a series of at least two points, x, y, trend_ls and avg_growth
\* all have the length of the series when the curves are plotted.
C4_CurveLengths ==
    (ReachedPlot /\ Len(trend.df) >= 2) =>
        /\ Len(trend.x) = Len(trend.df)
        /\ Len(trend.y) = Len(trend.df)
        /\ Len(trend.trend_ls) = Len(trend.df)
        /\ Len(trend.avg_growth) = Len(trend.df)

C4_Witness ==
    /\ trend.outcome = "image"
    /\ Len(trend.df) = MaxRows
    /\ Len(trend.response.png.lines) = 3
    /\ \A i \in 1..3 : Len(trend.response.png.lines[i].ydata) = MaxRows

\* C5: for a non-empty frame with ascending timestamps, x is as long as y,
\* starts at 0, is the day difference truncated to whole days, and never
\* decreases.
C5_DayOffsets ==
    (FetchedRows /\ Len(trend.df) >= 1) =>
        /\ Len(trend.x) = Len(trend.close)
        /\ Len(trend.x) = Len(trend.df)
        /\ trend.x[1] = 0
        /\ \A i \in 1..Len(trend.x) :
              /\ trend.x[i] * UnitsPerDay <= trend.df[i].t - trend.df[1].t
              /\ trend.df[i].t - trend.df[1].t < (trend.x[i] + 1) * UnitsPerDay
        /\ \A i \in 1..(Len(trend.x) - 1) : trend.x[i] <= trend.x[i + 1]

C5_Witness ==
    /\ FetchedRows
    /\ Len(trend.df) = 3
    /\ (trend.df[2].t - trend.df[1].t) % UnitsPerDay # 0
    /\ trend.df[3].t - trend.df[1].t > UnitsPerDay
    /\ trend.x[3] >= 1

\* C6: a chart is drawn from the request's own ticker, scale and curves
\* only, and no figure stays in pyplot's registry for another request.
C6_RequestsIndependent ==
    /\ figs = <<>>
    /\ trend.outcome = "image" =>
          LET png == trend.response.png
          IN  /\ Len(png.lines) = 3
              /\ \A i \in 1..3 : png.lines[i].xdata = Index(trend.df)
              /\ png.lines[1].ydata = trend.y
              /\ png.lines[2].ydata = trend.avg_growth
              /\ png.lines[3].ydata = trend.trend_ls
              /\ png.lines[1].label = trend.req.ticker
              /\ png.title[1] = trend.req.ticker
              /\ png.yscale = (IF trend.req.scale = "log"
                               THEN "log2" ELSE "linear")

C6_Witness ==
    /\ trend.outcome = "image"
    /\ \E r \in pending :
          r.ticker # trend.req.ticker /\ r.scale # trend.req.scale

\* C7: no step of get_trend changes the stock_state cookie, and its
\* response carries no Set-Cookie.
C7_TrendKeepsCookie ==
    [][cookie' = cookie /\ trend'.response.set_cookie.kind = "unset"]_vars

C7_Witness ==
    /\ trend.outcome = "image"
    /\ cookie.kind = "json"
    /\ Len(cookie.state["stocks"]) = 2

IsUpperCase(t) ==
    \A i \in 1..Len(t) : \A j \in 1..Len(LowerCase) : t[i] # LowerCase[j]

\* C8: as long as each mutation carried the cookie of the previous response,
\* the persisted stocks hold no duplicate, only upper-case tickers, exactly
\* the tickers added and not removed since, in the order of those adds.
C8_WatchlistOrderedSet ==
    (chained /\ cookie.kind = "json") =>
        LET stocks == cookie.state["stocks"]
        IN  /\ \A i, j \in 1..Len(stocks) : stocks[i] = stocks[j] => i = j
            /\ \A i \in 1..Len(stocks) : IsUpperCase(stocks[i])
            /\ {stocks[i] : i \in 1..Len(stocks)} = Present(addRank)
            /\ \A i, j \in 1..Len(stocks) :
                  i < j => addRank[stocks[i]] < addRank[stocks[j]]

C8_Witness ==
    /\ chained
    /\ cookie.kind = "json"
    /\ cookie.state["stocks"] = <<AAPL, MSFT>>
    /\ sess.kind = "add"
    /\ ~IsUpperCase(sess.ticker)
    /\ sess.state["stocks"] = <<AAPL>>

Written == sess.response.set_cookie.state
OtherKeysKept(keys) ==
    /\ DOMAIN Written = DOMAIN sess.state
    /\ \A k \in (DOMAIN sess.state) \ keys : Written[k] = sess.state[k]
WithoutIndex(list, i) ==
    SubSeq(list, 1, i - 1) \o SubSeq(list, i + 1, Len(list))

\* C10: the state a mutation persists is the state read from its own
\* request's cookie with only its own field changed: add and remove keep
\* every key but stocks and change stocks by at most the upper-cased
\* ticker, set_options keeps every key but period and scale.
C10_MutationFrame ==
    /\ (sess.kind # "none" /\ sess.cookie.kind = "json") =>
          sess.state = sess.cookie.state
    /\ sess.kind = "add" =>
          /\ sess.response.set_cookie.kind = "json"
          /\ OtherKeysKept({"stocks"})
          /\ \/ Written["stocks"] = sess.state["stocks"]
             \/ Written["stocks"] =
                    Append(sess.state["stocks"], Upper(sess.ticker))
    /\ sess.kind = "remove" =>
          /\ sess.response.set_cookie.kind = "json"
          /\ OtherKeysKept({"stocks"})
          /\ \/ Written["stocks"] = sess.state["stocks"]
             \/ \E i \in 1..Len(sess.state["stocks"]) :
                   /\ sess.state["stocks"][i] = Upper(sess.ticker)
                   /\ Written["stocks"] = WithoutIndex(sess.state["stocks"], i)
    /\ sess.kind = "set_options" =>
          /\ sess.response.set_cookie.kind = "json"
          /\ OtherKeysKept({"period", "scale"})
          /\ Written["period"] = sess.period
          /\ Written["scale"] = sess.scale

C10_Witness ==
    /\ sess.kind = "set_options"
    /\ ~chained
    /\ sess.cookie.kind = "json"
    /\ sess.state["stocks"] = <<MSFT>>
    /\ sess.state["period"] # sess.period
    /\ cookie = sess.response.set_cookie

====
